---- MODULE Spec2Model ----
(***************************************************************************)
(* Mesh to signed-distance-field converter (computeDistanceField and the   *)
(* mesh-distance compute shader), with the OBJ loader (parseOBJ), the      *)
(* bounding box of a mesh (computeBounds) and the page that drives them    *)
(* (main.ts).  Five specifications share the variables: Spec, KernelSpec,  *)
(* ObjSpec, BoundsSpec and UiSpec.                                         *)
(*                                                                         *)
(* Numbers.  The program computes in floating point; the model computes    *)
(* the same expressions exactly, in fixed point.  A mesh coordinate is an  *)
(* integer.  The volume bounds of distance-field.ts:44-60 are held at      *)
(* scale BoundsScale(padding) = 2 * (denominator of the padding), which    *)
(* makes the centre (a half) and the half extent exact.  Inside the shader *)
(* every position is held at scale BoundsScale * resolution, which makes   *)
(* the voxel centres of mesh-distance.wgsl:97-98 exact.  A length is held  *)
(* as its square, a fraction <<numerator, denominator>>; comparing squares *)
(* of non-negative lengths is comparing the lengths.                       *)
(***************************************************************************)
EXTENDS Integers, Sequences, FiniteSets, TLC

(***************************************************************************)
(* Bounds of the model.                                                    *)
(***************************************************************************)
\* resolutions tried by the conversion pipeline: -1 .. MaxRes
MaxRes == 9
\* resolutions tried by the single-invocation kernel specification
MaxKernelRes == 3
\* conversions made one after another in one behaviour
MaxCalls == 2
\* lines of an OBJ file
MaxObjLines == 4
\* vertex references on one face line
MaxFaceRefs == 4
\* whole vertices in an array handed to computeBounds
MaxBoundsVerts == 3
\* click events the compute button delivers in one behaviour
MaxClicks == 2
\* change events of the file input in one behaviour
MaxLoads == 2

(***************************************************************************)
(* Integer and fraction helpers.                                           *)
(***************************************************************************)
Abs(a) == IF a < 0 THEN -a ELSE a

Max2(a, b) == IF a > b THEN a ELSE b

Min2(a, b) == IF a < b THEN a ELSE b

RECURSIVE Gcd(_, _)
Gcd(a, b) == IF b = 0 THEN a ELSE Gcd(b, a % b)

\* a/b < c/d for a, c >= 0 and b, d > 0, by continued fractions (no products)
RECURSIVE FracLess(_, _, _, _)
FracLess(a, b, c, d) ==
    LET qa == a \div b
        qc == c \div d
        ra == a % b
        rc == c % d
    IN  IF qa # qc THEN qa < qc
        ELSE IF rc = 0 THEN FALSE
        ELSE IF ra = 0 THEN TRUE
        ELSE FracLess(d, rc, b, ra)

\* a fraction in lowest terms
Reduce(q) == LET g == Gcd(q[1], q[2]) IN <<q[1] \div g, q[2] \div g>>

QLess(q, r) == FracLess(q[1], q[2], r[1], r[2])

QEq(q, r) == Reduce(q) = Reduce(r)

QMin(q, r) == IF QLess(r, q) THEN r ELSE q

(***************************************************************************)
(* Vectors (vec3f / Vec3).                                                 *)
(***************************************************************************)
VSub(a, b) == <<a[1] - b[1], a[2] - b[2], a[3] - b[3]>>

VAdd(a, b) == <<a[1] + b[1], a[2] + b[2], a[3] + b[3]>>

VScale(k, a) == <<k * a[1], k * a[2], k * a[3]>>

Dot(a, b) == a[1] * b[1] + a[2] * b[2] + a[3] * b[3]

Cross(a, b) == <<a[2] * b[3] - a[3] * b[2],
                 a[3] * b[1] - a[1] * b[3],
                 a[1] * b[2] - a[2] * b[1]>>

Sign(a) == IF a > 0 THEN 1 ELSE IF a < 0 THEN -1 ELSE 0

(***************************************************************************)
(* Meshes (src/mesh/types.ts).  vertices is the flat Float32Array grouped  *)
(* by three; indices is the flat Uint32Array, 0-based as in the program.   *)
(***************************************************************************)
ZeroVec == <<0, 0, 0>>

VMin(a, b) == <<Min2(a[1], b[1]), Min2(a[2], b[2]), Min2(a[3], b[3])>>

VMax(a, b) == <<Max2(a[1], b[1]), Max2(a[2], b[2]), Max2(a[3], b[3])>>

\* the loop of computeBounds from vertex i on, with the running box
RECURSIVE BoundsLoop(_, _, _)
BoundsLoop(vertices, i, box) ==
    IF i > Len(vertices) THEN box
    ELSE BoundsLoop(vertices, i + 1,
                    [min |-> VMin(box.min, vertices[i]),
                     max |-> VMax(box.max, vertices[i])])

ZeroBox == [min |-> ZeroVec, max |-> ZeroVec]

\* a box that is the first vertex, whatever follows it
computeBoundsFirstVertex(vertices) ==
    IF Len(vertices) < 1
    THEN ZeroBox
    ELSE [min |-> vertices[1], max |-> vertices[1]]

\* computeBounds on the vertices of the flat array (whole vertices only)
computeBounds(vertices) ==
    IF Len(vertices) < 1
    THEN ZeroBox
    ELSE BoundsLoop(vertices, 2, [min |-> vertices[1], max |-> vertices[1]])

\* the vertices of a flat array [x0, y0, z0, x1, ...] of whole vertices
GroupByThree(flat) ==
    [k \in 1..(Len(flat) \div 3) |->
        <<flat[3 * k - 2], flat[3 * k - 1], flat[3 * k]>>]

\* computeBounds on the flat array itself: lines 40-45 look at its length
computeBoundsFlat(flat) ==
    IF Len(flat) < 3
    THEN ZeroBox
    ELSE computeBounds(GroupByThree(flat))

\* twice the centre (the centre at scale 2)
boundsCenter(bounds) == VAdd(bounds.min, bounds.max)

boundsSize(bounds) == VSub(bounds.max, bounds.min)

MakeMesh(vertices, indices) ==
    [vertices |-> vertices,
     indices |-> indices,
     triangleCount |-> Len(indices) \div 3,
     bounds |-> computeBounds(vertices)]

\* no vertices, no triangles
EmptyMesh == MakeMesh(<<>>, <<>>)

\* vertices but no triangles
NoFaceMesh == MakeMesh(<<<<0, 0, 0>>, <<1, 0, 0>>, <<0, 1, 0>>>>, <<>>)

\* one triangle in the plane z = 0
TriangleMesh == MakeMesh(<<<<0, 0, 0>>, <<1, 0, 0>>, <<0, 1, 0>>>>, <<0, 1, 2>>)

\* a unit square split along its diagonal: the two triangles share an edge
QuadMesh == MakeMesh(<<<<0, 0, 0>>, <<1, 0, 0>>, <<1, 1, 0>>, <<0, 1, 0>>>>,
                     <<0, 1, 2, 0, 2, 3>>)

\* one zero-area triangle: three distinct points of a line
DegenerateMesh == MakeMesh(<<<<0, 0, 0>>, <<1, 0, 0>>, <<2, 0, 0>>>>, <<0, 1, 2>>)

Meshes == <<EmptyMesh, NoFaceMesh, TriangleMesh, QuadMesh, DegenerateMesh>>

MeshIds == 1..Len(Meshes)

(***************************************************************************)
(* Configuration and volume bounds (distance-field.ts:40-62).  A padding   *)
(* is a fraction <<numerator, denominator>>.                               *)
(***************************************************************************)
DefaultPadding == <<1, 10>>

BoundsScale(padding) == 2 * padding[2]

\* a half extent that leaves the padding out
HalfExtentNoPadding(mesh, padding) ==
    LET meshSize == boundsSize(mesh.bounds)
    IN  Max2(meshSize[1], Max2(meshSize[2], meshSize[3])) * padding[2]

\* maxExtent * (1 + padding) / 2 at scale BoundsScale
HalfExtent(mesh, padding) ==
    LET meshSize == boundsSize(mesh.bounds)
        maxExtent == Max2(meshSize[1], Max2(meshSize[2], meshSize[3]))
    IN  maxExtent * (padding[2] + padding[1])

\* meshCenter -/+ halfExtent at scale BoundsScale
VolumeBounds(mesh, padding) ==
    LET center == VScale(padding[2], boundsCenter(mesh.bounds))
        h == HalfExtent(mesh, padding)
    IN  [min |-> VSub(center, <<h, h, h>>), max |-> VAdd(center, <<h, h, h>>)]

\* a voxel size computed from the half extent alone
VoxelSizeHalf(mesh, cfg) == <<HalfExtent(mesh, cfg.padding), cfg.resolution>>

\* (halfExtent * 2) / resolution as the fraction it is; the division itself
\* never throws in the program (a zero resolution gives Infinity or NaN)
VoxelSize(mesh, cfg) == <<2 * HalfExtent(mesh, cfg.padding), cfg.resolution>>

\* the uniform buffer written at distance-field.ts:92-96
Uniforms(mesh, cfg) ==
    [volume_min |-> VolumeBounds(mesh, cfg.padding).min,
     volume_max |-> VolumeBounds(mesh, cfg.padding).max,
     resolution |-> cfg.resolution,
     triangle_count |-> mesh.triangleCount]

(***************************************************************************)
(* The compute shader (mesh-distance.wgsl).  k is the fixed-point scale of *)
(* the positions inside the shader.                                        *)
(***************************************************************************)
ShaderScale(cfg) == BoundsScale(cfg.padding) * cfg.resolution

\* A load beyond the end of a storage array.  WGSL lets it return zero or a
\* value held elsewhere in the same binding; the meshes of the model reach
\* it only with an empty index array, where zero is what there is.
OobLoad == 0

get_vertex(mesh, idx, k) ==
    IF idx < Len(mesh.vertices)
    THEN VScale(k, mesh.vertices[idx + 1])
    ELSE <<OobLoad, OobLoad, OobLoad>>

LoadIndex(mesh, j) ==
    IF j < Len(mesh.indices) THEN mesh.indices[j + 1] ELSE OobLoad

get_triangle(mesh, tri_idx, k) ==
    LET base == tri_idx * 3
    IN  <<get_vertex(mesh, LoadIndex(mesh, base), k),
          get_vertex(mesh, LoadIndex(mesh, base + 1), k),
          get_vertex(mesh, LoadIndex(mesh, base + 2), k)>>

\* |p - (v0 + s*e0 + t*e1)|^2 for s = sn/den, t = tn/den
OffsetSq(v, e0, e1, sn, tn, den) ==
    LET g == Gcd(Gcd(Abs(sn), Abs(tn)), den)
        a == sn \div g
        b == tn \div g
        c == den \div g
        w == VSub(VScale(c, v), VAdd(VScale(a, e0), VScale(b, e1)))
    IN  Reduce(<<Dot(w, w), c * c>>)

\* the square of the value returned by point_triangle_distance
point_triangle_distance(p, v0, v1, v2) ==
    LET e0 == VSub(v1, v0)
        e1 == VSub(v2, v0)
        v == VSub(p, v0)
        d00 == Dot(e0, e0)
        d01 == Dot(e0, e1)
        d11 == Dot(e1, e1)
        d20 == Dot(v, e0)
        d21 == Dot(v, e1)
        denom == d00 * d11 - d01 * d01
        s0 == d11 * d20 - d01 * d21
        t0 == d00 * d21 - d01 * d20
        \* the quotients s0/denom and t0/denom clamped at zero; denom > 0 here
        s1 == IF s0 < 0 THEN 0 ELSE s0
        t1 == IF t0 < 0 THEN 0 ELSE t0
    IN  IF denom = 0
        THEN <<Dot(v, v), 1>>
        ELSE IF s1 + t1 > denom
             THEN OffsetSq(v, e0, e1, s1, t1, s1 + t1)
             ELSE OffsetSq(v, e0, e1, s1, t1, denom)

\* cross(v1 - v0, v2 - v0) before normalize
triangle_normal(v0, v1, v2) == Cross(VSub(v1, v0), VSub(v2, v0))

\* The result of compute_sign: [nan, s].  normalize of the zero vector is
\* 0/0: the value the platform gives the sign of it is indet.
compute_sign(p, v0, v1, v2, indet) ==
    LET normal == triangle_normal(v0, v1, v2)
        to_point3 == VSub(VScale(3, p), VAdd(v0, VAdd(v1, v2)))
    IN  IF normal = ZeroVec
        THEN indet
        ELSE [nan |-> FALSE, s |-> Sign(Dot(normal, to_point3))]

\* what the platform may give for sign(dot(normalize(0), x))
Indeterminate ==
    {[nan |-> TRUE, s |-> 0]} \cup {[nan |-> FALSE, s |-> x] : x \in {-1, 0, 1}}

\* min_dist = 1e10, above every distance between points of the model
Far == <<1, 0>>

DistLess(d, m) == IF m = Far THEN d # Far ELSE IF d = Far THEN FALSE ELSE QLess(d, m)

\* a bounds check that lets the invocations one past the grid through
OutOfGridOffByOne(gid, u) ==
    gid[1] > u.resolution \/ gid[2] > u.resolution \/ gid[3] > u.resolution

\* the condition of the early return of main
OutOfGrid(gid, u) ==
    LET resolution == IF u.resolution < 0 THEN 0 ELSE u.resolution
    IN  gid[1] >= resolution \/ gid[2] >= resolution \/ gid[3] >= resolution

\* voxel_size of main, per axis, as the fraction it is (scale of the uniforms)
voxel_size(u) ==
    LET extent == VSub(u.volume_max, u.volume_min)
    IN  <<<<extent[1], u.resolution>>, <<extent[2], u.resolution>>,
          <<extent[3], u.resolution>>>>

\* the voxel centre p at scale (scale of the uniforms) * resolution
VoxelCenter(gid, u) ==
    LET extent == VSub(u.volume_max, u.volume_min)
    IN  <<u.volume_min[1] * u.resolution + ((2 * gid[1] + 1) * extent[1]) \div 2,
          u.volume_min[2] * u.resolution + ((2 * gid[2] + 1) * extent[2]) \div 2,
          u.volume_min[3] * u.resolution + ((2 * gid[3] + 1) * extent[3]) \div 2>>

\* an iteration that also takes a triangle at an equal distance (d <= min_dist)
LoopStepLastWins(mesh, k, p, i, acc) ==
    LET tri == get_triangle(mesh, i, k)
        d == point_triangle_distance(p, tri[1], tri[2], tri[3])
    IN  IF ~DistLess(acc.min_dist, d)
        THEN [min_dist |-> d, closest_tri |-> i]
        ELSE acc

\* one iteration of the loop over the triangles: the new (min_dist, closest_tri)
LoopStep(mesh, k, p, i, acc) ==
    LET tri == get_triangle(mesh, i, k)
        d == point_triangle_distance(p, tri[1], tri[2], tri[3])
    IN  IF DistLess(d, acc.min_dist)
        THEN [min_dist |-> d, closest_tri |-> i]
        ELSE acc

RECURSIVE ClosestLoop(_, _, _, _, _, _)
ClosestLoop(mesh, k, p, i, tri_count, acc) ==
    IF i >= tri_count THEN acc
    ELSE ClosestLoop(mesh, k, p, i + 1, tri_count, LoopStep(mesh, k, p, i, acc))

\* s * min_dist as [nan, s, sq]: the sign and the squared magnitude
SignedValue(sg, min_dist) ==
    IF sg.nan THEN [nan |-> TRUE, s |-> 0, sq |-> <<0, 1>>]
    ELSE IF sg.s = 0 THEN [nan |-> FALSE, s |-> 0, sq |-> <<0, 1>>]
    ELSE [nan |-> FALSE, s |-> sg.s, sq |-> min_dist]

\* the value main stores for the voxel gid
VoxelValue(gid, mesh, cfg, indet) ==
    LET u == Uniforms(mesh, cfg)
        k == ShaderScale(cfg)
        p == VoxelCenter(gid, u)
        r == ClosestLoop(mesh, k, p, 0, u.triangle_count,
                         [min_dist |-> Far, closest_tri |-> 0])
        tri == get_triangle(mesh, r.closest_tri, k)
    IN  SignedValue(compute_sign(p, tri[1], tri[2], tri[3], indet), r.min_dist)

(***************************************************************************)
(* The dispatch (distance-field.ts:135-138, mesh-distance.wgsl:87-94,119). *)
(***************************************************************************)
WorkgroupSize == 8

\* a count rounded down
WorkgroupCountFloor(resolution) == resolution \div WorkgroupSize

\* Math.ceil(resolution / workgroupSize)
WorkgroupCount(resolution) == -((-resolution) \div WorkgroupSize)

Cube(n) == (0..(n - 1)) \X (0..(n - 1)) \X (0..(n - 1))

\* the workgroup ids of dispatchWorkgroups(n, n, n)
Workgroups(resolution) == Cube(WorkgroupCount(resolution))

\* the global invocation ids of one workgroup
InvocationsOf(wg) ==
    {<<wg[1] * WorkgroupSize + l[1],
       wg[2] * WorkgroupSize + l[2],
       wg[3] * WorkgroupSize + l[3]>> : l \in Cube(WorkgroupSize)}

\* a store that forgets the z coordinate
StoreCoordFlat(gid) == <<gid[1], gid[2], 0>>

\* the coordinate main passes to textureStore
StoreCoord(gid) == gid

\* the output cells main loads from: output is a write-only storage texture
LoadCoords(gid) == {}

\* the texels of the texture created at distance-field.ts:65-74
Cells(resolution) == Cube(resolution)

\* the stores made by the invocations of the workgroups wgs, as
\* <<invocation, coordinate>>: an invocation past the early return stores once
StoresOf(wgs, u) ==
    UNION {{<<gid, StoreCoord(gid)>> : gid \in {g \in InvocationsOf(wg) : ~OutOfGrid(g, u)}}
           : wg \in wgs}

\* the loads of output cells made by the invocations of the workgroups wgs
LoadsOf(wgs, u) ==
    UNION {UNION {LoadCoords(gid) : gid \in {g \in InvocationsOf(wg) : ~OutOfGrid(g, u)}}
           : wg \in wgs}

(***************************************************************************)
(* State.                                                                  *)
(***************************************************************************)
VARIABLES
    mesh,           \* the Mesh handed to the conversion (an index of Meshes)
    cfg,            \* the merged configuration: [resolution, padding]
    indet,          \* what this platform gives for an indeterminate sign
    pc,             \* where computeDistanceField stands
    calls,          \* conversions started so far
    texture,        \* the output texture of the call: none, live, destroyed
    vertexBuffer,   \* likewise the three buffers of the call
    indexBuffer,
    uniformBuffer,
    dispatched,     \* the command buffer of the call has been submitted
    executed,       \* the workgroups of the dispatch the GPU has run
    signals,        \* completion signals the call has awaited
    outcome,        \* how the last call ended: none, field, error
    error,          \* the error it ended with
    fields,         \* the DistanceFields returned so far, with their texels
    kpc,            \* where one invocation of main stands
    gid,            \* its global_invocation_id
    i,              \* its loop counter
    acc,            \* its [min_dist, closest_tri]
    stored,         \* what it passed to textureStore
    objPc,          \* where parseOBJ stands: off, line, face, returned, thrown
    lineNum,        \* lines of the content consumed so far
    parsedVertices, \* vertices of parseOBJContent, grouped by three
    parsedIndices,  \* indices of parseOBJContent
    faceParts,      \* vertex references on the face line being parsed
    faceIndices,    \* faceIndices of parseFace
    index,          \* the last index parseFace parsed: [kind, n]
    parsedMesh,     \* the Mesh parseOBJ returned, if it did
    boundsPc,       \* where a call of computeBounds stands: off, input, returned
    boundsInput,    \* the flat array it is given
    boundsOutput,   \* the box it returned
    initPc,         \* where init stands: off, awaiting, ready, failed
    gpuContext,     \* gpuContext is not null
    currentMesh,    \* the file currentMesh was loaded from, or null
    currentDistanceField, \* the texture of currentDistanceField, 0 for null
    computeBtnDisabled,   \* computeBtn.disabled
    gpuTextures,    \* the output textures created so far: live or destroyed
    conversions,    \* the handleCompute runs awaiting computeDistanceField
    loads,          \* the files of the handleFileLoad runs awaiting the load
    clicks,         \* click events handled so far
    changes,        \* change events handled so far
    failedLoads,    \* loads that have ended in the catch block
    loadedMesh      \* the file of the last load that resolved, or null

pipelineVars == <<pc, calls, texture, vertexBuffer, indexBuffer, uniformBuffer,
                  dispatched, executed, signals, outcome, error, fields>>

kernelVars == <<kpc, gid, i, acc, stored>>

objVars == <<objPc, lineNum, parsedVertices, parsedIndices, faceParts, faceIndices,
            index, parsedMesh>>

boundsVars == <<boundsPc, boundsInput, boundsOutput>>

\* the state outside the conversion
uiVars == <<initPc, gpuContext, currentMesh, currentDistanceField,
           computeBtnDisabled, gpuTextures, conversions, loads, clicks, changes,
           failedLoads, loadedMesh>>

\* the state outside the conversion
hostVars == <<objVars, boundsVars, uiVars>>

\* the state of the conversion
coreVars == <<mesh, cfg, indet, pipelineVars, kernelVars>>

vars == <<coreVars, hostVars>>

Resolutions == (-1)..MaxRes

Paddings == {<<0, 1>>}

NoAcc == [min_dist |-> Far, closest_tri |-> 0]

NoStore == [nan |-> FALSE, s |-> 0, sq |-> Far]

KernelIdle ==
    /\ kpc = "off"
    /\ gid = ZeroVec
    /\ i = 0
    /\ acc = NoAcc
    /\ stored = NoStore

PipelineIdle ==
    /\ pc = "idle"
    /\ calls = 0
    /\ texture = "none"
    /\ vertexBuffer = "none"
    /\ indexBuffer = "none"
    /\ uniformBuffer = "none"
    /\ dispatched = FALSE
    /\ executed = {}
    /\ signals = 0
    /\ outcome = "none"
    /\ error = "none"
    /\ fields = <<>>

NoIndex == [kind |-> "none", n |-> 0]

NoMesh == [vertices |-> <<>>, indices |-> <<>>, triangleCount |-> 0,
           bounds |-> [min |-> ZeroVec, max |-> ZeroVec]]

ObjIdle ==
    /\ objPc = "off"
    /\ lineNum = 0
    /\ parsedVertices = <<>>
    /\ parsedIndices = <<>>
    /\ faceParts = 0
    /\ faceIndices = <<>>
    /\ index = NoIndex
    /\ parsedMesh = NoMesh

BoundsIdle ==
    /\ boundsPc = "off"
    /\ boundsInput = <<>>
    /\ boundsOutput = ZeroBox

UiIdle ==
    /\ initPc = "off"
    /\ gpuContext = FALSE
    /\ currentMesh = "null"
    /\ currentDistanceField = 0
    /\ computeBtnDisabled = TRUE
    /\ gpuTextures = <<>>
    /\ conversions = <<>>
    /\ loads = <<>>
    /\ clicks = 0
    /\ changes = 0
    /\ failedLoads = 0
    /\ loadedMesh = "null"

\* nothing outside the conversion is running
HostIdle ==
    /\ ObjIdle
    /\ BoundsIdle
    /\ UiIdle

Init ==
    /\ mesh \in MeshIds
    /\ cfg \in [resolution : Resolutions, padding : Paddings]
    /\ indet \in Indeterminate
    /\ PipelineIdle
    /\ KernelIdle
    /\ HostIdle

\* resources of the current call that are allocated and not released
Outstanding ==
    Cardinality({r \in {<<1, texture>>, <<2, vertexBuffer>>,
                        <<3, indexBuffer>>, <<4, uniformBuffer>>} : r[2] = "live"})

\* resources the current call has allocated
Allocated ==
    Cardinality({r \in {<<1, texture>>, <<2, vertexBuffer>>,
                        <<3, indexBuffer>>, <<4, uniformBuffer>>} : r[2] # "none"})

(***************************************************************************)
(* computeDistanceField, one action per device call.  A device call either *)
(* returns or throws; the function has no try, so a throw ends the call    *)
(* with that error and nothing else runs.                                  *)
(***************************************************************************)
Throw(kind) ==
    /\ pc' = "idle"
    /\ outcome' = "error"
    /\ error' = kind
    /\ UNCHANGED <<calls, texture, vertexBuffer, indexBuffer, uniformBuffer,
                   dispatched, executed, signals, fields>>

\* lines 35-62: merge the configuration, compute the bounds and the voxel size
StartCall ==
    /\ pc = "idle"
    /\ calls < MaxCalls
    /\ pc' = "createTexture"
    /\ calls' = calls + 1
    /\ texture' = "none"
    /\ vertexBuffer' = "none"
    /\ indexBuffer' = "none"
    /\ uniformBuffer' = "none"
    /\ dispatched' = FALSE
    /\ executed' = {}
    /\ signals' = 0
    /\ outcome' = "none"
    /\ error' = "none"
    /\ UNCHANGED fields
    /\ UNCHANGED <<mesh, cfg, indet, kernelVars, hostVars>>

\* lines 64-74: device.createTexture; a negative size is refused with a
\* TypeError by the binding ([EnforceRange] unsigned long), a zero size gives
\* a texture object all the same (its validation error is not thrown)
CreateTexture ==
    /\ pc = "createTexture"
    /\ \/ /\ cfg.resolution >= 0
          /\ texture' = "live"
          /\ pc' = "createVertexBuffer"
          /\ UNCHANGED <<calls, vertexBuffer, indexBuffer, uniformBuffer, dispatched,
                         executed, signals, outcome, error, fields>>
       \/ /\ cfg.resolution >= 0
          /\ Throw("DeviceError")
       \/ /\ cfg.resolution < 0
          /\ Throw("TypeError")
    /\ UNCHANGED <<mesh, cfg, indet, kernelVars, hostVars>>

\* lines 76-82: createBuffer(device, mesh.vertices, ...)
CreateVertexBuffer ==
    /\ pc = "createVertexBuffer"
    /\ \/ /\ vertexBuffer' = "live"
          /\ pc' = "createIndexBuffer"
          /\ UNCHANGED <<calls, texture, indexBuffer, uniformBuffer, dispatched,
                         executed, signals, outcome, error, fields>>
       \/ Throw("DeviceError")
    /\ UNCHANGED <<mesh, cfg, indet, kernelVars, hostVars>>

\* lines 84-89: createBuffer(device, mesh.indices, ...)
CreateIndexBuffer ==
    /\ pc = "createIndexBuffer"
    /\ \/ /\ indexBuffer' = "live"
          /\ pc' = "createUniformBuffer"
          /\ UNCHANGED <<calls, texture, vertexBuffer, uniformBuffer, dispatched,
                         executed, signals, outcome, error, fields>>
       \/ Throw("DeviceError")
    /\ UNCHANGED <<mesh, cfg, indet, kernelVars, hostVars>>

\* lines 91-103: createBuffer(device, uniformData, ...)
CreateUniformBuffer ==
    /\ pc = "createUniformBuffer"
    /\ \/ /\ uniformBuffer' = "live"
          /\ pc' = "createPipeline"
          /\ UNCHANGED <<calls, texture, vertexBuffer, indexBuffer, dispatched,
                         executed, signals, outcome, error, fields>>
       \/ Throw("DeviceError")
    /\ UNCHANGED <<mesh, cfg, indet, kernelVars, hostVars>>

\* lines 105-127: shader module, compute pipeline, bind group
CreatePipeline ==
    /\ pc = "createPipeline"
    /\ \/ /\ pc' = "submit"
          /\ UNCHANGED <<calls, texture, vertexBuffer, indexBuffer, uniformBuffer,
                         dispatched, executed, signals, outcome, error, fields>>
       \/ Throw("DeviceError")
    /\ UNCHANGED <<mesh, cfg, indet, kernelVars, hostVars>>

\* a variant that does not await the submitted work
AfterSubmitNoAwait == "destroyVertex"

\* the statement after queue.submit (line 141) is the await of line 144
AfterSubmit == "await"

\* lines 129-141: encode the pass, dispatchWorkgroups, queue.submit
Submit ==
    /\ pc = "submit"
    /\ \/ /\ dispatched' = TRUE
          /\ pc' = AfterSubmit
          /\ UNCHANGED <<calls, texture, vertexBuffer, indexBuffer, uniformBuffer,
                         executed, signals, outcome, error, fields>>
       \/ Throw("DeviceError")
    /\ UNCHANGED <<mesh, cfg, indet, kernelVars, hostVars>>

\* the GPU runs one more workgroup of the submitted dispatch, in any order,
\* whatever the caller is doing meanwhile
RunWorkgroup ==
    /\ pc # "idle"
    /\ dispatched
    /\ \E wg \in Workgroups(cfg.resolution) \ executed :
          executed' = executed \cup {wg}
    /\ UNCHANGED <<pc, calls, texture, vertexBuffer, indexBuffer, uniformBuffer,
                   dispatched, signals, outcome, error, fields>>
    /\ UNCHANGED <<mesh, cfg, indet, kernelVars, hostVars>>

\* line 144: await queue.onSubmittedWorkDone(); the promise resolves once all
\* submitted work has run
WorkDone ==
    /\ pc = "await"
    /\ \/ /\ executed = Workgroups(cfg.resolution)
          /\ signals' = signals + 1
          /\ pc' = "destroyVertex"
          /\ UNCHANGED <<calls, texture, vertexBuffer, indexBuffer, uniformBuffer,
                         dispatched, executed, outcome, error, fields>>
       \/ Throw("DeviceError")
    /\ UNCHANGED <<mesh, cfg, indet, kernelVars, hostVars>>

\* line 147: vertexBuffer.destroy()
DestroyVertex ==
    /\ pc = "destroyVertex"
    /\ vertexBuffer' = "destroyed"
    /\ pc' = "destroyIndex"
    /\ UNCHANGED <<calls, texture, indexBuffer, uniformBuffer, dispatched, executed,
                   signals, outcome, error, fields>>
    /\ UNCHANGED <<mesh, cfg, indet, kernelVars, hostVars>>

\* line 148: indexBuffer.destroy()
DestroyIndex ==
    /\ pc = "destroyIndex"
    /\ indexBuffer' = "destroyed"
    /\ pc' = "destroyUniform"
    /\ UNCHANGED <<calls, texture, vertexBuffer, uniformBuffer, dispatched, executed,
                   signals, outcome, error, fields>>
    /\ UNCHANGED <<mesh, cfg, indet, kernelVars, hostVars>>

\* line 149: uniformBuffer.destroy()
DestroyUniform ==
    /\ pc = "destroyUniform"
    /\ uniformBuffer' = "destroyed"
    /\ pc' = "return"
    /\ UNCHANGED <<calls, texture, vertexBuffer, indexBuffer, dispatched, executed,
                   signals, outcome, error, fields>>
    /\ UNCHANGED <<mesh, cfg, indet, kernelVars, hostVars>>

\* The DistanceField of lines 151-156.  texels is what the texture holds when
\* the call returns: the stores the GPU has made, as <<invocation, texel>>.
\* bounds and voxelSize are at scale BoundsScale(cfg.padding).
DistanceField ==
    [resolution |-> cfg.resolution,
     bounds |-> VolumeBounds(Meshes[mesh], cfg.padding),
     voxelSize |-> VoxelSize(Meshes[mesh], cfg),
     texels |-> StoresOf(executed, Uniforms(Meshes[mesh], cfg))]

\* the size handed to createTexture (line 67)
TextureSize(resolution) == <<resolution, resolution, resolution>>

\* the length of the Float32Array readDistanceFieldData returns for a field:
\* a staging buffer of resolution ** 3 * 4 bytes read as 4-byte floats
readDistanceFieldData(df) ==
    LET size == df.resolution ^ 3
        byteSize == size * 4
    IN  byteSize \div 4

\* lines 151-156: return the field
Return ==
    /\ pc = "return"
    /\ fields' = Append(fields, DistanceField)
    /\ outcome' = "field"
    /\ pc' = "idle"
    /\ UNCHANGED <<calls, texture, vertexBuffer, indexBuffer, uniformBuffer,
                   dispatched, executed, signals, error>>
    /\ UNCHANGED <<mesh, cfg, indet, kernelVars, hostVars>>

Next ==
    \/ StartCall
    \/ CreateTexture
    \/ CreateVertexBuffer
    \/ CreateIndexBuffer
    \/ CreateUniformBuffer
    \/ CreatePipeline
    \/ Submit
    \/ RunWorkgroup
    \/ WorkDone
    \/ DestroyVertex
    \/ DestroyIndex
    \/ DestroyUniform
    \/ Return

Spec == Init /\ [][Next]_vars

(***************************************************************************)
(* One invocation of main (mesh-distance.wgsl:87-120), step by step.       *)
(***************************************************************************)
KernelResolutions == 1..MaxKernelRes

KernelPaddings == {<<0, 1>>, DefaultPadding}

\* the invocation ids looked at: the grid and the layer just outside it
KernelInit ==
    /\ mesh \in MeshIds
    /\ cfg \in [resolution : KernelResolutions, padding : KernelPaddings]
    /\ indet \in Indeterminate
    /\ PipelineIdle
    /\ HostIdle
    /\ kpc = "start"
    /\ gid \in Cube(cfg.resolution + 1)
    /\ i = 0
    /\ acc = NoAcc
    /\ stored = NoStore

\* the position p of the invocation
KernelPoint == VoxelCenter(gid, Uniforms(Meshes[mesh], cfg))

\* lines 89-102: the bounds check, then min_dist = 1e10 and closest_tri = 0
KernelStart ==
    /\ kpc = "start"
    /\ kpc' = IF OutOfGrid(gid, Uniforms(Meshes[mesh], cfg)) THEN "returned" ELSE "loop"
    /\ i' = 0
    /\ acc' = NoAcc
    /\ UNCHANGED <<hostVars, mesh, cfg, indet, pipelineVars, gid, stored>>

\* lines 105-112: one iteration of the loop
KernelLoop ==
    /\ kpc = "loop"
    /\ i < Meshes[mesh].triangleCount
    /\ acc' = LoopStep(Meshes[mesh], ShaderScale(cfg), KernelPoint, i, acc)
    /\ i' = i + 1
    /\ UNCHANGED <<hostVars, mesh, cfg, indet, pipelineVars, kpc, gid, stored>>

\* lines 115-119: the sign from closest_tri and the store
KernelStore ==
    /\ kpc = "loop"
    /\ i >= Meshes[mesh].triangleCount
    /\ LET tri == get_triangle(Meshes[mesh], acc.closest_tri, ShaderScale(cfg))
       IN  stored' = SignedValue(
                         compute_sign(KernelPoint, tri[1], tri[2], tri[3], indet),
                         acc.min_dist)
    /\ kpc' = "done"
    /\ UNCHANGED <<hostVars, mesh, cfg, indet, pipelineVars, gid, i, acc>>

KernelNext == KernelStart \/ KernelLoop \/ KernelStore

KernelSpec == KernelInit /\ [][KernelNext]_vars

(***************************************************************************)
(* parseOBJ (src/mesh/obj-loader.ts), one step per line of the content and *)
(* per vertex reference of a face line.  The content is drawn as it is     *)
(* read.                                                                   *)
(***************************************************************************)
\* the conversion is not running
CoreIdle ==
    /\ mesh = 1
    /\ cfg = [resolution |-> 1, padding |-> <<0, 1>>]
    /\ indet = [nan |-> TRUE, s |-> 0]
    /\ PipelineIdle
    /\ KernelIdle

\* coordinates a vertex line may carry (they play no part in the indices)
VertexChoices == {<<1, 2, 3>>}

\* what parseInt may give for a vertex reference: NaN or an integer, here
\* one that refers to one of the first three vertices from either end, or 0
IndexTokens ==
    {[kind |-> "nan", n |-> 0]}
        \cup {[kind |-> "int", n |-> x] : x \in (-3)..3}

\* the value of zeroBasedIndex when parseFace throws instead
Refused == -1

\* a range check that lets vertexCount itself through
ZeroBasedIndexLax(idx, vertexCount) ==
    IF idx.kind = "nan" THEN Refused
    ELSE IF idx.n = 0 THEN Refused
    ELSE LET zeroBasedIndex == IF idx.n > 0 THEN idx.n - 1 ELSE vertexCount + idx.n
         IN  IF zeroBasedIndex < 0 \/ zeroBasedIndex > vertexCount
             THEN Refused
             ELSE zeroBasedIndex

\* lines 109-129: the 0-based index of a parsed reference, or Refused
ZeroBasedIndex(idx, vertexCount) ==
    IF idx.kind = "nan" THEN Refused
    ELSE IF idx.n = 0 THEN Refused
    ELSE LET zeroBasedIndex == IF idx.n > 0 THEN idx.n - 1 ELSE vertexCount + idx.n
         IN  IF zeroBasedIndex < 0 \/ zeroBasedIndex >= vertexCount
             THEN Refused
             ELSE zeroBasedIndex

\* a triangulation into a strip: (f[j-1], f[j], f[j+1])
RECURSIVE TriangulateStrip(_, _, _)
TriangulateStrip(face, j, indices) ==
    IF j >= Len(face) - 1 THEN indices
    ELSE TriangulateStrip(face, j + 1,
                          indices \o <<face[j], face[j + 1], face[j + 2]>>)

\* lines 135-137: the loop from j on; face[j + 1] is faceIndices[j]
RECURSIVE Triangulate(_, _, _)
Triangulate(face, j, indices) ==
    IF j >= Len(face) - 1 THEN indices
    ELSE Triangulate(face, j + 1,
                     indices \o <<face[1], face[j + 1], face[j + 2]>>)

ObjInit ==
    /\ CoreIdle
    /\ BoundsIdle
    /\ UiIdle
    /\ objPc = "line"
    /\ lineNum = 0
    /\ parsedVertices = <<>>
    /\ parsedIndices = <<>>
    /\ faceParts = 0
    /\ faceIndices = <<>>
    /\ index = NoIndex
    /\ parsedMesh = NoMesh

\* an OBJParseError leaves parseOBJ
ObjThrow ==
    /\ objPc' = "thrown"
    /\ UNCHANGED <<lineNum, parsedVertices, parsedIndices, parsedMesh>>

\* lines 55-57, 69: an empty line, a comment or a command that is ignored
SkipLine ==
    /\ objPc = "line"
    /\ lineNum < MaxObjLines
    /\ lineNum' = lineNum + 1
    /\ UNCHANGED <<objPc, parsedVertices, parsedIndices, faceParts, faceIndices,
                   index, parsedMesh>>
    /\ UNCHANGED <<coreVars, boundsVars, uiVars>>

\* lines 63-65, 76-90: a v line, with three numbers or not
ParseVertexLine ==
    /\ objPc = "line"
    /\ lineNum < MaxObjLines
    /\ \/ /\ \E v \in VertexChoices : parsedVertices' = Append(parsedVertices, v)
          /\ lineNum' = lineNum + 1
          /\ UNCHANGED <<objPc, parsedIndices, parsedMesh>>
       \/ ObjThrow
    /\ UNCHANGED <<faceParts, faceIndices, index>>
    /\ UNCHANGED <<coreVars, boundsVars, uiVars>>

\* lines 66-68, 98-103: an f line with some number of vertex references
BeginFace ==
    /\ objPc = "line"
    /\ lineNum < MaxObjLines
    /\ \E n \in 0..MaxFaceRefs :
          /\ faceParts' = n
          /\ IF n < 3
             THEN ObjThrow
             ELSE /\ objPc' = "face"
                  /\ UNCHANGED <<lineNum, parsedVertices, parsedIndices, parsedMesh>>
    /\ faceIndices' = <<>>
    /\ UNCHANGED index
    /\ UNCHANGED <<coreVars, boundsVars, uiVars>>

\* lines 105-132: one iteration of the loop over the references
ParseFaceIndex ==
    /\ objPc = "face"
    /\ Len(faceIndices) < faceParts
    /\ \E tok \in IndexTokens :
          /\ index' = tok
          /\ LET zeroBasedIndex == ZeroBasedIndex(tok, Len(parsedVertices))
             IN  IF zeroBasedIndex = Refused
                 THEN /\ ObjThrow
                      /\ UNCHANGED faceIndices
                 ELSE /\ faceIndices' = Append(faceIndices, zeroBasedIndex)
                      /\ UNCHANGED <<objPc, lineNum, parsedVertices, parsedIndices,
                                     parsedMesh>>
    /\ UNCHANGED faceParts
    /\ UNCHANGED <<coreVars, boundsVars, uiVars>>

\* lines 134-137: the face is triangulated and the line is done
EndFace ==
    /\ objPc = "face"
    /\ Len(faceIndices) = faceParts
    /\ parsedIndices' = Triangulate(faceIndices, 1, parsedIndices)
    /\ objPc' = "line"
    /\ lineNum' = lineNum + 1
    /\ UNCHANGED <<parsedVertices, faceParts, faceIndices, index, parsedMesh>>
    /\ UNCHANGED <<coreVars, boundsVars, uiVars>>

\* lines 24-43: the content has no more lines
FinishParse ==
    /\ objPc = "line"
    /\ IF Len(parsedVertices) = 0 \/ Len(parsedIndices) = 0
       THEN ObjThrow
       ELSE /\ parsedMesh' = MakeMesh(parsedVertices, parsedIndices)
            /\ objPc' = "returned"
            /\ UNCHANGED <<lineNum, parsedVertices, parsedIndices>>
    /\ UNCHANGED <<faceParts, faceIndices, index>>
    /\ UNCHANGED <<coreVars, boundsVars, uiVars>>

ObjNext ==
    \/ SkipLine
    \/ ParseVertexLine
    \/ BeginFace
    \/ ParseFaceIndex
    \/ EndFace
    \/ FinishParse

ObjSpec == ObjInit /\ [][ObjNext]_vars

(***************************************************************************)
(* computeBounds (src/mesh/types.ts) as a function of its own: one call on *)
(* a flat array of numbers.                                                *)
(***************************************************************************)
\* coordinates of the arrays handed to computeBounds
BoundsCoords == {-1, 0, 1, 2}

\* whole vertices handed to computeBounds
BoundsPoints == {<<0, 0, 0>>, <<1, -1, 2>>, <<-1, 2, 1>>, <<2, 1, -1>>}

RECURSIVE Flatten(_)
Flatten(vertices) ==
    IF vertices = <<>> THEN <<>>
    ELSE Head(vertices) \o Flatten(Tail(vertices))

\* the arrays handed to computeBounds: fewer than 3 numbers, or up to
\* MaxBoundsVerts whole vertices
BoundsInputs ==
    UNION {[1..n -> BoundsCoords] : n \in 0..2}
    \cup {Flatten(vs) : vs \in UNION {[1..n -> BoundsPoints] : n \in 1..MaxBoundsVerts}}

BoundsInit ==
    /\ CoreIdle
    /\ ObjIdle
    /\ UiIdle
    /\ boundsPc = "input"
    /\ boundsInput \in BoundsInputs
    /\ boundsOutput = ZeroBox

\* lines 39-69: the call
CallComputeBounds ==
    /\ boundsPc = "input"
    /\ boundsOutput' = computeBoundsFlat(boundsInput)
    /\ boundsPc' = "returned"
    /\ UNCHANGED <<boundsInput, coreVars, objVars, uiVars>>

BoundsNext == CallComputeBounds

BoundsSpec == BoundsInit /\ [][BoundsNext]_vars

(***************************************************************************)
(* The page (src/main.ts): init, the change events of the file input and   *)
(* the click events of the compute button.  Every handler is an async      *)
(* function: one step runs it up to its await, another runs what follows    *)
(* the await once the awaited promise has settled.  A click event reaches  *)
(* handleCompute only while the button is not disabled.                    *)
(***************************************************************************)
\* the files a change event may carry: none, one parseOBJ or file.text
\* throws on, or one that parses to a mesh
MeshFiles == {"A", "B"}

Files == {"nofile", "bad"} \cup MeshFiles

\* line 38: canCompute
CanComputeMeshOnly(gpu, m) == m # "null"

CanCompute(gpu, m) == gpu /\ m # "null"

\* lines 37-40: the value updateUI gives computeBtn.disabled
updateUI(gpu, m) == ~CanCompute(gpu, m)

\* a sequence without its k-th element
Without(s, k) == [j \in 1..(Len(s) - 1) |-> IF j < k THEN s[j] ELSE s[j + 1]]

\* the page's markup is not part of the sources: the button starts either way
UiInit ==
    /\ CoreIdle
    /\ ObjIdle
    /\ BoundsIdle
    /\ initPc = "awaiting"
    /\ gpuContext = FALSE
    /\ currentMesh = "null"
    /\ currentDistanceField = 0
    /\ computeBtnDisabled \in BOOLEAN
    /\ gpuTextures = <<>>
    /\ conversions = <<>>
    /\ loads = <<>>
    /\ clicks = 0
    /\ changes = 0
    /\ failedLoads = 0
    /\ loadedMesh = "null"

\* lines 120-121, 131: initWebGPU resolves
InitWebGPUResolves ==
    /\ initPc = "awaiting"
    /\ initPc' = "ready"
    /\ gpuContext' = TRUE
    /\ computeBtnDisabled' = updateUI(gpuContext', currentMesh)
    /\ UNCHANGED <<currentMesh, currentDistanceField, gpuTextures, conversions,
                   loads, clicks, changes, failedLoads, loadedMesh>>
    /\ UNCHANGED <<coreVars, objVars, boundsVars>>

\* lines 122-131: initWebGPU rejects
InitWebGPUFails ==
    /\ initPc = "awaiting"
    /\ initPc' = "failed"
    /\ computeBtnDisabled' = updateUI(gpuContext, currentMesh)
    /\ UNCHANGED <<gpuContext, currentMesh, currentDistanceField, gpuTextures,
                   conversions, loads, clicks, changes, failedLoads, loadedMesh>>
    /\ UNCHANGED <<coreVars, objVars, boundsVars>>

\* lines 42-54: a change event, up to the await of loadOBJFromFile
FileChange ==
    /\ changes < MaxLoads
    /\ changes' = changes + 1
    /\ \E file \in Files :
          loads' = IF file = "nofile" THEN loads ELSE Append(loads, file)
    /\ UNCHANGED <<initPc, gpuContext, currentMesh, currentDistanceField,
                   computeBtnDisabled, gpuTextures, conversions, clicks,
                   failedLoads, loadedMesh>>
    /\ UNCHANGED <<coreVars, objVars, boundsVars>>

\* lines 54-59: loadOBJFromFile resolves with the mesh of the file
FileLoadResolves(k) ==
    /\ loads[k] \in MeshFiles
    /\ currentMesh' = loads[k]
    /\ loadedMesh' = loads[k]
    /\ computeBtnDisabled' = updateUI(gpuContext, currentMesh')
    /\ loads' = Without(loads, k)
    /\ UNCHANGED <<initPc, gpuContext, currentDistanceField, gpuTextures,
                   conversions, clicks, changes, failedLoads>>
    /\ UNCHANGED <<coreVars, objVars, boundsVars>>

\* a catch block that forgets the mesh loaded before
FileLoadFailsClearing(k) ==
    /\ loads[k] = "bad"
    /\ failedLoads' = failedLoads + 1
    /\ currentMesh' = "null"
    /\ loads' = Without(loads, k)
    /\ UNCHANGED <<initPc, gpuContext, currentDistanceField, computeBtnDisabled,
                   gpuTextures, conversions, clicks, changes, loadedMesh>>
    /\ UNCHANGED <<coreVars, objVars, boundsVars>>

\* lines 60-64: loadOBJFromFile rejects (file.text or parseOBJ threw)
FileLoadFails(k) ==
    /\ loads[k] = "bad"
    /\ failedLoads' = failedLoads + 1
    /\ loads' = Without(loads, k)
    /\ UNCHANGED <<initPc, gpuContext, currentMesh, currentDistanceField,
                   computeBtnDisabled, gpuTextures, conversions, clicks, changes,
                   loadedMesh>>
    /\ UNCHANGED <<coreVars, objVars, boundsVars>>

\* the textures after line 82: the one of the previous field is destroyed
DestroyPrevious(textures, field) ==
    IF field = 0 THEN textures
    ELSE [textures EXCEPT ![field] = "destroyed"]

\* lines 67-85: a click event, up to the await of computeDistanceField, which
\* has created its output texture by then (distance-field.ts:65)
ClickCompute ==
    /\ ~computeBtnDisabled
    /\ clicks < MaxClicks
    /\ clicks' = clicks + 1
    /\ IF ~gpuContext \/ currentMesh = "null"
       THEN UNCHANGED <<computeBtnDisabled, gpuTextures, conversions>>
       ELSE /\ computeBtnDisabled' = TRUE
            /\ gpuTextures' =
                  Append(DestroyPrevious(gpuTextures, currentDistanceField), "live")
            /\ conversions' = Append(conversions,
                  [mesh |-> currentMesh, texture |-> Len(gpuTextures) + 1])
    /\ UNCHANGED <<initPc, gpuContext, currentMesh, currentDistanceField, loads,
                   changes, failedLoads, loadedMesh>>
    /\ UNCHANGED <<coreVars, objVars, boundsVars>>

\* lines 85-93, 98-100: the oldest conversion resolves with its field
ConversionResolves ==
    /\ conversions # <<>>
    /\ currentDistanceField' = conversions[1].texture
    /\ conversions' = Tail(conversions)
    /\ computeBtnDisabled' = updateUI(gpuContext, currentMesh)
    /\ UNCHANGED <<initPc, gpuContext, currentMesh, gpuTextures, loads, clicks,
                   changes, failedLoads, loadedMesh>>
    /\ UNCHANGED <<coreVars, objVars, boundsVars>>

\* lines 94-100: a conversion rejects
ConversionFails(k) ==
    /\ conversions' = Without(conversions, k)
    /\ computeBtnDisabled' = updateUI(gpuContext, currentMesh)
    /\ UNCHANGED <<initPc, gpuContext, currentMesh, currentDistanceField,
                   gpuTextures, loads, clicks, changes, failedLoads, loadedMesh>>
    /\ UNCHANGED <<coreVars, objVars, boundsVars>>

UiNext ==
    \/ InitWebGPUResolves
    \/ InitWebGPUFails
    \/ FileChange
    \/ \E k \in 1..Len(loads) : FileLoadResolves(k)
    \/ \E k \in 1..Len(loads) : FileLoadFails(k)
    \/ ClickCompute
    \/ ConversionResolves
    \/ \E k \in 1..Len(conversions) : ConversionFails(k)

UiSpec == UiInit /\ [][UiNext]_vars

(***************************************************************************)
(* Claims about the conversion pipeline (specification Spec).              *)
(***************************************************************************)
CurrentMesh == Meshes[mesh]

CurrentUniforms == Uniforms(CurrentMesh, cfg)

\* the call has ended with an error
Failed == pc = "idle" /\ outcome = "error"

\* the call has returned a DistanceField
Returned == pc = "idle" /\ outcome = "field"

\* C1: a call with resolution <= 0 allocates no device resource and ends
\* with an InvalidConfig error.
C1_InvalidConfigRejected ==
    (calls > 0 /\ cfg.resolution <= 0) =>
        /\ Allocated = 0
        /\ pc = "idle" => (outcome = "error" /\ error = "InvalidConfig")

\* C2: a call on a mesh with no vertices or no triangles (and a positive
\* resolution) allocates no device resource, submits no dispatch and ends
\* with an EmptyMesh error.
C2_EmptyMeshRejected ==
    (/\ calls > 0
     /\ cfg.resolution >= 1
     /\ (Len(CurrentMesh.vertices) = 0 \/ CurrentMesh.triangleCount = 0)) =>
        /\ Allocated = 0
        /\ ~dispatched
        /\ pc = "idle" => (outcome = "error" /\ error = "EmptyMesh")

\* C3: when a call ends with an error, every resource it allocated has been
\* released.
C3_NoLeakOnFailure == Failed => Outstanding = 0

\* C4: the three buffers are destroyed only after the one awaited completion
\* signal, all three are destroyed when the call returns its field, and the
\* converter never destroys the output texture.
C4_TransientsReleasedAfterSignal ==
    /\ \A b \in {vertexBuffer, indexBuffer, uniformBuffer} :
          b = "destroyed" => signals = 1
    /\ texture # "destroyed"
    /\ Returned =>
          /\ vertexBuffer = "destroyed"
          /\ indexBuffer = "destroyed"
          /\ uniformBuffer = "destroyed"
          /\ texture = "live"
          /\ signals = 1

C4_Witness ==
    /\ Returned
    /\ cfg.resolution >= 1
    /\ CurrentMesh.triangleCount >= 1
    /\ vertexBuffer = "destroyed"
    /\ indexBuffer = "destroyed"
    /\ uniformBuffer = "destroyed"
    /\ texture = "live"

\* the dispatch of the call has run to its end and the call still awaits it
DispatchComplete ==
    /\ dispatched
    /\ pc = "await"
    /\ executed = Workgroups(cfg.resolution)

\* C5: for a resolution >= 1, once every workgroup of the dispatch has run
\* (in whatever order), every texel of the resolution^3 texture has been
\* stored to by exactly one invocation, no store went outside the texture
\* and no invocation loaded an output texel.
C5_OneStorePerVoxel ==
    (DispatchComplete /\ cfg.resolution >= 1) =>
        LET st == StoresOf(executed, CurrentUniforms)
            coords == {x[2] : x \in st}
        IN  /\ coords = Cells(cfg.resolution)
            /\ Cardinality(coords) = Cardinality(st)
            /\ LoadsOf(executed, CurrentUniforms) = {}

C5_Witness ==
    /\ DispatchComplete
    /\ cfg.resolution > WorkgroupSize
    /\ Cardinality(executed) > 1
    /\ Cardinality(StoresOf(executed, CurrentUniforms)) = Cardinality(Cells(cfg.resolution))

\* the grid a returned field holds: <<texel, value>> for every store made
GridOf(f) ==
    {<<x[2], VoxelValue(x[1], CurrentMesh, cfg, indet)>> : x \in f.texels}

\* a grid gives every texel at most one value
SingleValued(g) == Cardinality({x[1] : x \in g}) = Cardinality(g)

C7_NoPartialField ==
    /\ Returned =>
          /\ fields # <<>>
          /\ Cells(cfg.resolution) \subseteq {x[2] : x \in fields[Len(fields)].texels}
    /\ Failed => Len(fields) < calls

C7_Witness ==
    /\ Returned
    /\ cfg.resolution > WorkgroupSize
    /\ Cardinality(fields[Len(fields)].texels) = Cardinality(Cells(cfg.resolution))

\* C12: for a resolution >= 1 the returned field has resolution^3 cells (the
\* texture size, the texels stored and the length of the readback), and its
\* voxelSize times the resolution is the edge of the returned bounds on
\* every axis, which is also the voxel size main derives from the uniforms.
C12_CellsAndVoxelSize ==
    (Returned /\ cfg.resolution >= 1) =>
        LET f == fields[Len(fields)]
            size == TextureSize(f.resolution)
            edge == VSub(f.bounds.max, f.bounds.min)
            vs == voxel_size(CurrentUniforms)
        IN  /\ size[1] * size[2] * size[3] = f.resolution ^ 3
            /\ Cardinality(f.texels) = f.resolution ^ 3
            /\ readDistanceFieldData(f) = f.resolution ^ 3
            /\ \A a \in 1..3 :
                  /\ f.voxelSize[1] * f.resolution = edge[a] * f.voxelSize[2]
                  /\ f.voxelSize[1] * vs[a][2] = vs[a][1] * f.voxelSize[2]

C12_Witness ==
    /\ Returned
    /\ cfg.resolution >= 2
    /\ CurrentMesh.triangleCount >= 1
    /\ fields[Len(fields)].voxelSize[1] > 0
    /\ readDistanceFieldData(fields[Len(fields)]) = Cardinality(fields[Len(fields)].texels)

(***************************************************************************)
(* Claims about the kernel (specification KernelSpec).  The reference      *)
(* distance is the geometric one: to the plane of the triangle when the    *)
(* foot of the perpendicular is in the triangle, else to the nearest edge. *)
(***************************************************************************)
\* |p - a|^2
DistSq(p, a) == Dot(VSub(p, a), VSub(p, a))

\* the squared distance from p to the segment a-b (a # b)
SegmentDistSq(p, a, b) ==
    LET ab == VSub(b, a)
        ap == VSub(p, a)
        len2 == Dot(ab, ab)
        along == Dot(ap, ab)
    IN  IF along <= 0 THEN <<DistSq(p, a), 1>>
        ELSE IF along >= len2 THEN <<DistSq(p, b), 1>>
        ELSE Reduce(<<DistSq(p, a) * len2 - along * along, len2>>)

\* a vector divided by the gcd of its components (not the zero vector)
Primitive(n) ==
    LET g == Gcd(Gcd(Abs(n[1]), Abs(n[2])), Abs(n[3]))
    IN  <<n[1] \div g, n[2] \div g, n[3] \div g>>

NonDegenerate(tri) == triangle_normal(tri[1], tri[2], tri[3]) # ZeroVec

\* the squared distance from p to the filled triangle tri; a zero-area
\* triangle is the union of its edges
TrueDistSq(p, tri) ==
    LET e0 == VSub(tri[2], tri[1])
        e1 == VSub(tri[3], tri[1])
        v == VSub(p, tri[1])
        d00 == Dot(e0, e0)
        d01 == Dot(e0, e1)
        d11 == Dot(e1, e1)
        d20 == Dot(v, e0)
        d21 == Dot(v, e1)
        denom == d00 * d11 - d01 * d01
        s == d11 * d20 - d01 * d21
        t == d00 * d21 - d01 * d20
    IN  IF denom > 0 /\ s >= 0 /\ t >= 0 /\ s + t <= denom
        THEN LET n == Primitive(Cross(e0, e1))
                 h == Dot(n, v)
             IN  Reduce(<<h * h, Dot(n, n)>>)
        ELSE QMin(SegmentDistSq(p, tri[1], tri[2]),
                  QMin(SegmentDistSq(p, tri[2], tri[3]),
                       SegmentDistSq(p, tri[3], tri[1])))

KernelMesh == Meshes[mesh]

KernelTriangle(j) == get_triangle(KernelMesh, j, ShaderScale(cfg))

\* the squared distance the kernel computes to triangle j
KernelDistSq(j) ==
    LET tri == KernelTriangle(j)
    IN  point_triangle_distance(KernelPoint, tri[1], tri[2], tri[3])

\* the squared distance from the voxel centre to the nearest triangle
TrueMinDistSq ==
    LET n == KernelMesh.triangleCount
        d(j) == TrueDistSq(KernelPoint, KernelTriangle(j))
        best == CHOOSE j \in 0..(n - 1) : \A m \in 0..(n - 1) : ~QLess(d(m), d(j))
    IN  d(best)

\* the squared magnitude of a stored value
MagnitudeSq(val) == IF val.s = 0 THEN <<0, 1>> ELSE val.sq

\* every triangle of the mesh has a positive area
AllNonDegenerate ==
    \A j \in 0..(KernelMesh.triangleCount - 1) : NonDegenerate(KernelTriangle(j))

\* C8: for a mesh of triangles of positive area, the magnitude of the value
\* stored for a voxel is the least distance from the voxel centre to a
\* triangle of the mesh, so the value is zero only for a centre on the
\* surface.
C8_MagnitudeIsMinDistance ==
    (kpc = "done" /\ KernelMesh.triangleCount >= 1 /\ AllNonDegenerate) =>
        /\ ~stored.nan
        /\ QEq(MagnitudeSq(stored), TrueMinDistSq)

\* C9: for a non-degenerate triangle, the distance point_triangle_distance
\* returns (to the point its clamping picks) is the distance to the closest
\* point of the filled triangle.
C9_ClampGivesClosestPoint ==
    (kpc \in {"loop", "done"} /\ i >= 1 /\ NonDegenerate(KernelTriangle(i - 1))) =>
        QEq(KernelDistSq(i - 1), TrueDistSq(KernelPoint, KernelTriangle(i - 1)))

\* the lowest index among the first n triangles at the least computed distance
LowestClosest(n) ==
    LET ties == {j \in 0..(n - 1) :
                    \A m \in 0..(n - 1) : ~QLess(KernelDistSq(m), KernelDistSq(j))}
    IN  CHOOSE j \in ties : \A m \in ties : j <= m

\* C10: for a mesh with at least one triangle, after any number of
\* iterations closest_tri is the lowest index among the triangles seen at
\* the least computed distance, and the stored sign is computed from that
\* triangle.
C10_FirstSeenWins ==
    (kpc \in {"loop", "done"} /\ i >= 1) =>
        /\ acc.closest_tri = LowestClosest(i)
        /\ QEq(acc.min_dist, KernelDistSq(LowestClosest(i)))
        /\ kpc = "done" =>
              LET tri == KernelTriangle(LowestClosest(i))
              IN  stored = SignedValue(
                      compute_sign(KernelPoint, tri[1], tri[2], tri[3], indet),
                      KernelDistSq(LowestClosest(i)))

\* two triangles at the same least distance, the first one kept
C10_Witness ==
    /\ kpc = "done"
    /\ KernelMesh.triangleCount = 2
    /\ i = 2
    /\ QEq(KernelDistSq(0), KernelDistSq(1))
    /\ acc.closest_tri = 0
    /\ stored.s # 0

\* C11: for a zero-area triangle point_triangle_distance returns the
\* distance from p to v0, and when such a triangle is the winning one the
\* value stored for the voxel is not NaN (nor infinite: it is sign times
\* that distance).
C11_DegenerateNeverNaN ==
    /\ (kpc \in {"loop", "done"} /\ i >= 1 /\ ~NonDegenerate(KernelTriangle(i - 1))) =>
          KernelDistSq(i - 1) = <<DistSq(KernelPoint, KernelTriangle(i - 1)[1]), 1>>
    /\ (/\ kpc = "done"
        /\ KernelMesh.triangleCount >= 1
        /\ ~NonDegenerate(KernelTriangle(acc.closest_tri))) =>
          /\ ~stored.nan
          /\ stored.sq # Far

\* C13: for every mesh and padding >= 0 the volume bounds are a cube whose
\* edge on every axis is maxExtent * (1 + padding), whose centre is the
\* midpoint of the mesh bounds and which contains the mesh bounds; the
\* uniforms of the kernel carry the same cube.
C13_CubicBounds ==
    LET b == VolumeBounds(KernelMesh, cfg.padding)
        mb == KernelMesh.bounds
        num == cfg.padding[1]
        den == cfg.padding[2]
        maxExtent == Max2(mb.max[1] - mb.min[1],
                          Max2(mb.max[2] - mb.min[2], mb.max[3] - mb.min[3]))
    IN  /\ Uniforms(KernelMesh, cfg).volume_min = b.min
        /\ Uniforms(KernelMesh, cfg).volume_max = b.max
        /\ \A a \in 1..3 :
              \* the bounds are held at scale 2 * den
              /\ (b.max[a] - b.min[a]) * den = (2 * den) * maxExtent * (den + num)
              /\ b.min[a] + b.max[a] = (2 * den) * (mb.min[a] + mb.max[a])
              /\ b.min[a] <= (2 * den) * mb.min[a]
              /\ (2 * den) * mb.max[a] <= b.max[a]

\* a padded cube around a box that is not a cube and not centred at the origin
C13_Witness ==
    /\ kpc = "done"
    /\ cfg.padding = DefaultPadding
    /\ KernelMesh.bounds.min # KernelMesh.bounds.max
    /\ boundsSize(KernelMesh.bounds)[1] # boundsSize(KernelMesh.bounds)[3]
    /\ boundsCenter(KernelMesh.bounds) # ZeroVec
    /\ VolumeBounds(KernelMesh, cfg.padding).min[3] < 0

(***************************************************************************)
(* Claims about parseOBJ (specification ObjSpec).                          *)
(***************************************************************************)
\* a parsed reference that is 0 or names no vertex defined so far
BadReference ==
    /\ index.kind = "int"
    /\ \/ index.n = 0
       \/ index.n > Len(parsedVertices)
       \/ index.n < -Len(parsedVertices)

\* C14: a mesh parseOBJ returns has every index in [0, vertex count), an
\* index array whose length is three times its triangleCount, and a face
\* reference that is 0 or outside the vertices defined so far makes
\* parseOBJ throw.
C14_IndicesInRange ==
    /\ objPc = "returned" =>
          /\ \A k \in 1..Len(parsedMesh.indices) :
                /\ parsedMesh.indices[k] >= 0
                /\ parsedMesh.indices[k] < Len(parsedMesh.vertices)
          /\ Len(parsedMesh.indices) % 3 = 0
          /\ parsedMesh.triangleCount * 3 = Len(parsedMesh.indices)
          /\ parsedMesh.triangleCount >= 1
    /\ BadReference => objPc = "thrown"

\* a mesh returned from a file whose faces use positive and negative references
C14_Witness ==
    /\ objPc = "returned"
    /\ Len(parsedMesh.indices) >= 6
    /\ index.kind = "int"
    /\ index.n < 0
    /\ \E k \in 1..Len(parsedMesh.indices) :
          parsedMesh.indices[k] = Len(parsedMesh.vertices) - 1

\* the triangles of a face f0..f(n-1): (f0, fk, f(k+1)) for k = 1..n-2
RECURSIVE FanOf(_, _)
FanOf(face, k) ==
    IF k > Len(face) - 2 THEN <<>>
    ELSE <<face[1], face[k + 1], face[k + 2]>> \o FanOf(face, k + 1)

\* C15: the step that ends a face line of n >= 3 valid references appends
\* to the indices, after those of all earlier faces, exactly the n - 2
\* triangles (f0, fi, f(i+1)) for i = 1..n-2, in that order.
C15_FanTriangulation ==
    [][(objPc = "face" /\ objPc' = "line") =>
          /\ parsedIndices' = parsedIndices \o FanOf(faceIndices, 1)
          /\ Len(parsedIndices') = Len(parsedIndices) + 3 * (Len(faceIndices) - 2)]_vars

\* a quad triangulated after an earlier face
C15_Witness ==
    /\ objPc = "line"
    /\ Len(faceIndices) = 4
    /\ Len(parsedIndices) >= 9
    /\ faceIndices[2] # faceIndices[3]
    /\ faceIndices[3] # faceIndices[4]
    /\ SubSeq(parsedIndices, Len(parsedIndices) - 5, Len(parsedIndices))
          = <<faceIndices[1], faceIndices[2], faceIndices[3],
              faceIndices[1], faceIndices[3], faceIndices[4]>>

(***************************************************************************)
(* Claims about computeBounds (specification BoundsSpec).                  *)
(***************************************************************************)
\* the vertices of a flat array, by their number
VertexNumbers(flat) == 1..(Len(flat) \div 3)

\* coordinate a of vertex k of a flat array
Coord(flat, k, a) == flat[3 * (k - 1) + a]

\* C16: for an array of at least one whole vertex computeBounds returns a
\* box with min <= max on every axis that contains every vertex and whose min
\* and max on every axis are coordinates of some vertex; for an array of
\* fewer than 3 numbers it returns the zero box.
C16_BoundsOfVertices ==
    boundsPc = "returned" =>
        IF Len(boundsInput) < 3
        THEN boundsOutput = ZeroBox
        ELSE \A a \in 1..3 :
                /\ boundsOutput.min[a] <= boundsOutput.max[a]
                /\ \A k \in VertexNumbers(boundsInput) :
                      /\ boundsOutput.min[a] <= Coord(boundsInput, k, a)
                      /\ Coord(boundsInput, k, a) <= boundsOutput.max[a]
                /\ \E k \in VertexNumbers(boundsInput) :
                      boundsOutput.min[a] = Coord(boundsInput, k, a)
                /\ \E k \in VertexNumbers(boundsInput) :
                      boundsOutput.max[a] = Coord(boundsInput, k, a)

\* a call on several vertices whose box is not the first vertex alone
C16_Witness ==
    /\ boundsPc = "returned"
    /\ Len(boundsInput) >= 6
    /\ boundsOutput.min # <<boundsInput[1], boundsInput[2], boundsInput[3]>>
    /\ boundsOutput.max # <<boundsInput[1], boundsInput[2], boundsInput[3]>>

(***************************************************************************)
(* Claims about the page (specification UiSpec).                           *)
(***************************************************************************)
\* C17: at most one conversion is in flight, and while a handleCompute run
\* awaits its conversion the compute button is disabled, whatever
\* handleFileLoad runs begin or end meanwhile.
C17_OneConversionInFlight ==
    /\ Len(conversions) <= 1
    /\ conversions # <<>> => computeBtnDisabled

\* C18: whenever no conversion is in flight, currentDistanceField is null or
\* refers to a texture that has not been destroyed.
C18_FieldTextureNotDestroyed ==
    (conversions = <<>> /\ currentDistanceField # 0) =>
        gpuTextures[currentDistanceField] = "live"

\* a step that begins a conversion (a call of computeDistanceField)
StartsConversion == Len(conversions') > Len(conversions)

\* C19: a conversion begins only with gpuContext set and a mesh loaded; once
\* initWebGPU has failed gpuContext is null and the compute button is
\* disabled, and no step taken while gpuContext is null calls
\* computeDistanceField or destroys a texture.
C19_NoConversionWithoutGpuAndMesh ==
    /\ [](initPc = "failed" => (~gpuContext /\ computeBtnDisabled))
    /\ [][StartsConversion => (gpuContext /\ currentMesh # "null")]_vars
    /\ [][~gpuContext => (conversions' = conversions /\ gpuTextures' = gpuTextures)]_vars

\* initWebGPU has failed with a mesh loaded, after a click that found
\* gpuContext null
C19_Witness ==
    /\ initPc = "failed"
    /\ currentMesh # "null"
    /\ clicks >= 1
    /\ computeBtnDisabled
    /\ conversions = <<>>
    /\ gpuTextures = <<>>

\* a step in which a load ends in the catch block of handleFileLoad
LoadFails == failedLoads' = failedLoads + 1

\* C20: a load that fails leaves currentMesh, currentDistanceField and
\* computeBtn.disabled as they were, and a conversion is given the mesh of
\* the last load that resolved, whatever loads have failed since.
C20_FailedLoadChangesNothing ==
    /\ [][LoadFails => /\ currentMesh' = currentMesh
                       /\ currentDistanceField' = currentDistanceField
                       /\ computeBtnDisabled' = computeBtnDisabled]_vars
    /\ [][StartsConversion =>
            conversions'[Len(conversions')].mesh = loadedMesh]_vars

\* a conversion of the mesh loaded before a load that failed
C20_Witness ==
    /\ failedLoads >= 1
    /\ loads = <<>>
    /\ conversions # <<>>
    /\ conversions[1].mesh = currentMesh
    /\ currentMesh = loadedMesh

====
